---- MODULE Spec2Model ----
(***************************************************************************)
(* Campaign Budget Allocation Advisor (src/streamlit_app.py).              *)
(*                                                                         *)
(* One run of the script over an uploaded CSV: read, drop "Total" rows,    *)
(* clean the numeric columns, drop incomplete rows, resolve the benchmark, *)
(* classify every row, display and offer the download.                     *)
(*                                                                         *)
(* Numbers are exact extended rationals n/d: d > 0 is a finite number,     *)
(* 0/0 is not-a-number, 1/0 and -1/0 are the infinities numpy produces.    *)
(* Binary floating-point rounding error is not modelled.  Text is a        *)
(* sequence of one-character strings.                                      *)
(***************************************************************************)
EXTENDS Integers, Sequences, FiniteSets, TLC

(***************************************************************************)
(* Extended rational arithmetic (IEEE semantics of the float operations    *)
(* the script uses).                                                       *)
(***************************************************************************)
Abs(i) == IF i < 0 THEN -i ELSE i

RECURSIVE GCD(_, _)
GCD(a, b) == IF b = 0 THEN a ELSE GCD(b, a % b)

Sign(i) == IF i < 0 THEN -1 ELSE IF i > 0 THEN 1 ELSE 0

\* The number n/d in lowest terms; d = 0 gives nan (n = 0) or an infinity.
Rat(n, d) ==
    IF d = 0 THEN [n |-> Sign(n), d |-> 0]
    ELSE LET g == GCD(Abs(n), Abs(d))
             s == IF d < 0 THEN -1 ELSE 1
         IN  [n |-> (s * n) \div g, d |-> (s * d) \div g]

NaN == [n |-> 0, d |-> 0]
Zero == [n |-> 0, d |-> 1]

IsNaN(x) == x.d = 0 /\ x.n = 0
IsFinite(x) == x.d > 0

\* a < b, a > b, a <= b on floats: false whenever an operand is nan.
FLt(a, b) ==
    /\ ~IsNaN(a)
    /\ ~IsNaN(b)
    /\ IF IsFinite(a) /\ IsFinite(b) THEN a.n * b.d < b.n * a.d
       ELSE IF IsFinite(a) THEN b.n > 0
       ELSE IF IsFinite(b) THEN a.n < 0
       ELSE a.n < b.n

FGe(a, b) == ~IsNaN(a) /\ ~IsNaN(b) /\ ~FLt(a, b)

FGt(a, b) == FLt(b, a)

FLeStrict(a, b) == FLt(a, b)

FLe(a, b) == ~IsNaN(a) /\ ~IsNaN(b) /\ ~FLt(b, a)

\* a - b (a + b is a - (0 - b))
FSub(a, b) ==
    IF IsNaN(a) \/ IsNaN(b) THEN NaN
    ELSE IF IsFinite(a) /\ IsFinite(b) THEN Rat(a.n * b.d - b.n * a.d, a.d * b.d)
    ELSE IF IsFinite(b) THEN a
    ELSE IF IsFinite(a) THEN [n |-> -b.n, d |-> 0]
    ELSE IF a.n = b.n THEN NaN ELSE a

\* abs(a)
FAbs(a) == [n |-> Abs(a.n), d |-> a.d]

\* a * b
FMul(a, b) ==
    IF IsNaN(a) \/ IsNaN(b) THEN NaN
    ELSE IF IsFinite(a) /\ IsFinite(b) THEN Rat(a.n * b.n, a.d * b.d)
    ELSE IF a.n = 0 \/ b.n = 0 THEN NaN
    ELSE [n |-> Sign(a.n) * Sign(b.n), d |-> 0]

FDivZeroIsZero(a, b) ==
    IF IsNaN(a) \/ IsNaN(b) THEN NaN
    ELSE IF IsFinite(a) /\ IsFinite(b)
         THEN IF b.n = 0 THEN Zero ELSE Rat(a.n * b.d, a.d * b.n)
    ELSE IF IsFinite(b) THEN [n |-> a.n * (IF b.n < 0 THEN -1 ELSE 1), d |-> 0]
    ELSE IF IsFinite(a) THEN Zero
    ELSE NaN

\* a / b on numpy floats: x/0 is an infinity, 0/0 is nan, nothing is raised.
FDiv(a, b) ==
    IF IsNaN(a) \/ IsNaN(b) THEN NaN
    ELSE IF IsFinite(a) /\ IsFinite(b)
         THEN IF b.n = 0 THEN [n |-> Sign(a.n), d |-> 0]
              ELSE Rat(a.n * b.d, a.d * b.n)
    ELSE IF IsFinite(b) THEN [n |-> a.n * (IF b.n < 0 THEN -1 ELSE 1), d |-> 0]
    ELSE IF IsFinite(a) THEN Zero
    ELSE NaN

\* round(x, 2): nearest multiple of 1/100, ties to even; nan and the
\* infinities are returned unchanged.
Round2(x) ==
    IF ~IsFinite(x) THEN x
    ELSE LET m == x.n * 100
             q == m \div x.d
             r == m % x.d
             up == \/ 2 * r > x.d
                   \/ (2 * r = x.d /\ q % 2 = 1)
         IN  Rat(IF up THEN q + 1 ELSE q, 100)

\* Series.mean(): the mean of the non-missing values, nan when there are none.
FAdd(a, b) == FSub(a, FSub(Zero, b))

RECURSIVE SumSeq(_)
SumSeq(s) == IF s = <<>> THEN Zero ELSE FAdd(Head(s), SumSeq(Tail(s)))

NotNaN(x) == ~IsNaN(x)

Mean(s) ==
    LET vals == SelectSeq(s, NotNaN)
    IN  IF vals = <<>> THEN NaN ELSE FDiv(SumSeq(vals), Rat(Len(vals), 1))

(***************************************************************************)
(* Text operations.                                                        *)
(***************************************************************************)
IsPrefix(p, s) == Len(p) <= Len(s) /\ SubSeq(s, 1, Len(p)) = p

\* str.contains(pat): pat occurs somewhere in s (case-sensitive).
Contains(s, pat) ==
    \E i \in 1..(Len(s) - Len(pat) + 1) : SubSeq(s, i, i + Len(pat) - 1) = pat

\* str.replace(pat, '') : remove the non-overlapping occurrences, left to right.
RECURSIVE Remove(_, _)
Remove(s, pat) ==
    IF s = <<>> THEN <<>>
    ELSE IF IsPrefix(pat, s) THEN Remove(SubSeq(s, Len(pat) + 1, Len(s)), pat)
    ELSE <<Head(s)>> \o Remove(Tail(s), pat)

\* str.strip()
RECURSIVE LStrip(_)
LStrip(s) == IF s # <<>> /\ Head(s) = " " THEN LStrip(Tail(s)) ELSE s

RECURSIVE RStrip(_)
RStrip(s) ==
    IF s # <<>> /\ s[Len(s)] = " " THEN RStrip(SubSeq(s, 1, Len(s) - 1)) ELSE s

Strip(s) == RStrip(LStrip(s))

Digits == {"0", "1", "2", "3", "4", "5", "6", "7", "8", "9"}

DigitVal(c) ==
    CASE c = "0" -> 0 [] c = "1" -> 1 [] c = "2" -> 2 [] c = "3" -> 3
      [] c = "4" -> 4 [] c = "5" -> 5 [] c = "6" -> 6 [] c = "7" -> 7
      [] c = "8" -> 8 [] c = "9" -> 9

RECURSIVE Decimal(_)
Decimal(s) == IF s = <<>> THEN 0 ELSE 10 * Decimal(SubSeq(s, 1, Len(s) - 1)) + DigitVal(s[Len(s)])

RECURSIVE Pow10(_)
Pow10(k) == IF k = 0 THEN 1 ELSE 10 * Pow10(k - 1)

\* pd.to_numeric(text, errors='coerce'): an optionally signed decimal
\* number, surrounding blanks ignored; anything else (the empty cell
\* included) is nan.
ToNumeric(text) ==
    LET t == Strip(text)
        neg == t # <<>> /\ Head(t) = "-"
        u == IF neg THEN Tail(t) ELSE t
        dots == {i \in 1..Len(u) : u[i] = "."}
        ip == IF dots = {} THEN u ELSE SubSeq(u, 1, (CHOOSE i \in dots : TRUE) - 1)
        fp == IF dots = {} THEN <<>> ELSE SubSeq(u, (CHOOSE i \in dots : TRUE) + 1, Len(u))
        ok == /\ Cardinality(dots) <= 1
              /\ Len(ip) + Len(fp) > 0
              /\ \A i \in 1..Len(ip) : ip[i] \in Digits
              /\ \A i \in 1..Len(fp) : fp[i] \in Digits
    IN  IF ~ok THEN NaN
        ELSE Rat((IF neg THEN -1 ELSE 1) * (Decimal(ip) * Pow10(Len(fp)) + Decimal(fp)),
                 Pow10(Len(fp)))

(***************************************************************************)
(* The uploaded table.                                                     *)
(***************************************************************************)
AllColumns == {"Campaign", "Conversions", "Cost / conv.", "CTR", "Clicks", "Conv. rate", "Budget"}

clean_columns == {"Conversions", "Cost / conv.", "CTR", "Clicks", "Conv. rate", "Budget"}

dropna_subset == {"Conversions", "Cost / conv.", "CTR", "Budget"}

new_columns == {"Budget Action", "Reason", "Expected Conversions", "Suggested Budget"}

display_cols == {"Campaign", "Budget", "Suggested Budget", "Conversions", "Cost / conv.",
                 "CTR", "Clicks", "Budget Action", "Reason", "Expected Conversions"}

TotalMarker == <<"T", "o", "t", "a", "l">>

TotalAccount == <<"T", "o", "t", "a", "l", ":", " ", "A", "c", "c", "o", "u", "n", "t">>

Brand == <<"B", "r", "a", "n", "d">>

GrandTotal == <<"G", "r", "a", "n", "d", " ", "T", "o", "t", "a", "l">>

Subtotal == <<"S", "u", "b", "t", "o", "t", "a", "l">>

Dash == <<"-", "-">>

Percent == <<"%">>

\* Largest number of data rows of an uploaded file.
MaxRows == 2

LoVals ==
    [c \in clean_columns |->
        CASE c = "Conversions" -> <<"4">>
          [] c = "Cost / conv." -> <<"7", ".", "0", "0">>
          [] c = "CTR" -> <<"2", "%">>
          [] c = "Clicks" -> <<"5", "0">>
          [] c = "Conv. rate" -> <<"2", "%">>
          [] c = "Budget" -> <<"1", "0", "0">>]

HiVals ==
    [c \in clean_columns |->
        CASE c = "Conversions" -> <<"1", "2">>
          [] c = "Cost / conv." -> <<"3">>
          [] c = "CTR" -> <<"4", ".", "0", "%">>
          [] c = "Clicks" -> <<"0">>
          [] c = "Conv. rate" -> <<"4", "%">>
          [] c = "Budget" -> <<"2", "5", "0", " ">>]

TotVals ==
    [c \in clean_columns |->
        CASE c = "Conversions" -> <<"8">>
          [] c = "Cost / conv." -> <<"5">>
          [] c = "CTR" -> <<"3", "%">>
          [] c = "Clicks" -> <<"5", "0">>
          [] c = "Conv. rate" -> <<"3", "%">>
          [] c = "Budget" -> Dash]

\* A row named nm with the cells of vals, the cell of column bad (if any)
\* holding the placeholder dash.
RawRow(nm, vals, bad) ==
    [c \in AllColumns |->
        IF c = "Campaign" THEN nm ELSE IF c = bad THEN Dash ELSE vals[c]]

RawRows ==
    {RawRow(Brand, LoVals, b) : b \in clean_columns \cup {"none"}}
    \cup {RawRow(Brand, HiVals, "none")}
    \cup {RawRow(TotalAccount, TotVals, b) :
            b \in {"none", "Conversions", "Cost / conv.", "CTR", "Conv. rate"}}
    \cup {RawRow(nm, LoVals, b) : nm \in {GrandTotal, Subtotal}, b \in {"none", "Budget"}}

\* The header of the file: every column, or all but one.
Headers == {AllColumns} \cup {AllColumns \ {c} : c \in AllColumns}

Tables == UNION {[1..k -> RawRows] : k \in 0..MaxRows}

Restrict(r, cols) == [c \in cols |-> r[c]]

(***************************************************************************)
(* State of one script run.                                                *)
(***************************************************************************)
VARIABLES
    pc,               \* the statement the script is about to execute
    columns,          \* df_raw.columns
    df_raw,           \* the table as read
    df,               \* the working table
    before_drop,
    after_drop,
    avg_conversions,
    avg_cpa,
    avg_ctr,
    avg_conv_rate,
    ui                \* the Streamlit elements emitted so far, in order

vars == <<pc, columns, df_raw, df, before_drop, after_drop,
          avg_conversions, avg_cpa, avg_ctr, avg_conv_rate, ui>>

Element(kind, text, n, data) == [kind |-> kind, text |-> text, n |-> n, data |-> data]

Info == Element("info", "upload", 0, <<>>)

DroppedWarning(n) == Element("warning", "dropped", n, <<>>)

FallbackWarning == Element("warning", "fallback", 0, <<>>)

Subheader == Element("subheader", "recommendations", 0, <<>>)

ErrorMessage(e) == Element("error", e, 0, <<>>)

Init ==
    /\ pc = "idle"
    /\ columns = {}
    /\ df_raw = <<>>
    /\ df = <<>>
    /\ before_drop = 0
    /\ after_drop = 0
    /\ avg_conversions = NaN
    /\ avg_cpa = NaN
    /\ avg_ctr = NaN
    /\ avg_conv_rate = NaN
    /\ ui = <<Info>>

\* The except handler: st.error, nothing else is emitted afterwards.
Raise(e) ==
    /\ pc' = "error"
    /\ ui' = Append(ui, ErrorMessage(e))

\* A file is uploaded; the script reruns and reads it.
ReadCsv ==
    /\ pc = "idle"
    /\ \E header \in Headers, rows \in Tables :
          /\ columns' = header
          /\ df_raw' = [i \in DOMAIN rows |-> Restrict(rows[i], header)]
    /\ pc' = "filter"
    /\ ui' = <<>>
    /\ df' = <<>>
    /\ UNCHANGED <<before_drop, after_drop, avg_conversions, avg_cpa, avg_ctr, avg_conv_rate>>

NotTotalAccount(r) == r["Campaign"] # TotalAccount

NotTotal(r) == ~Contains(r["Campaign"], TotalMarker)

\* df = df_raw[~df_raw['Campaign'].str.contains("Total", na=False)].copy()
FilterTotals ==
    /\ pc = "filter"
    /\ IF "Campaign" \notin columns
       THEN Raise("KeyError") /\ UNCHANGED df
       ELSE /\ df' = SelectSeq(df_raw, NotTotal)
            /\ pc' = "clean"
            /\ UNCHANGED ui
    /\ UNCHANGED <<columns, df_raw, before_drop, after_drop,
                   avg_conversions, avg_cpa, avg_ctr, avg_conv_rate>>

\* One cell of a cleaned column.
CleanCell(text) == ToNumeric(Strip(Remove(Remove(text, Dash), Percent)))

CleanRow(r) ==
    [c \in DOMAIN r |-> IF c \in clean_columns THEN CleanCell(r[c]) ELSE r[c]]

\* for col in clean_columns: if col in df.columns: ...
CleanColumns ==
    /\ pc = "clean"
    /\ df' = [i \in DOMAIN df |-> CleanRow(df[i])]
    /\ pc' = "dropna"
    /\ UNCHANGED <<columns, df_raw, before_drop, after_drop,
                   avg_conversions, avg_cpa, avg_ctr, avg_conv_rate, ui>>

CompleteButBudget(r) == \A c \in dropna_subset \ {"Budget"} : ~IsNaN(r[c])

Complete(r) == \A c \in dropna_subset : ~IsNaN(r[c])

\* before_drop, dropna(subset=...), after_drop and the warning.
DropIncomplete ==
    /\ pc = "dropna"
    /\ IF ~(dropna_subset \subseteq columns)
       THEN /\ Raise("KeyError")
            /\ before_drop' = Len(df)
            /\ UNCHANGED <<df, after_drop>>
       ELSE /\ before_drop' = Len(df)
            /\ df' = SelectSeq(df, Complete)
            /\ after_drop' = Len(df')
            /\ ui' = IF before_drop' # after_drop'
                     THEN Append(ui, DroppedWarning(before_drop' - after_drop'))
                     ELSE ui
            /\ pc' = "benchmark"
    /\ UNCHANGED <<columns, df_raw, avg_conversions, avg_cpa, avg_ctr, avg_conv_rate>>

IsTotalLine(r) == Contains(r["Campaign"], TotalMarker)

IsTotalAccount(r) == r["Campaign"] = TotalAccount

Column(table, c) == [i \in DOMAIN table |-> table[i][c]]

\* avg_row and the four benchmark values.
ResolveBenchmark ==
    /\ pc = "benchmark"
    /\ LET avg_row == SelectSeq(df_raw, IsTotalAccount)
       IN  IF avg_row = <<>>
           THEN /\ avg_conversions' = Mean(Column(df, "Conversions"))
                /\ avg_cpa' = Mean(Column(df, "Cost / conv."))
                /\ avg_ctr' = Mean(Column(df, "CTR"))
                /\ IF "Conv. rate" \in columns
                   THEN /\ avg_conv_rate' = FDiv(Mean(Column(df, "Conv. rate")), Rat(100, 1))
                        /\ ui' = Append(ui, FallbackWarning)
                        /\ pc' = "apply"
                   ELSE /\ UNCHANGED avg_conv_rate
                        /\ pc' = "error"
                        /\ ui' = ui \o <<FallbackWarning, ErrorMessage("KeyError")>>
           ELSE /\ avg_conversions' = ToNumeric(avg_row[1]["Conversions"])
                /\ avg_cpa' = ToNumeric(avg_row[1]["Cost / conv."])
                /\ avg_ctr' = ToNumeric(Remove(avg_row[1]["CTR"], Percent))
                /\ IF "Conv. rate" \in columns
                   THEN /\ avg_conv_rate' =
                              FDiv(ToNumeric(Remove(avg_row[1]["Conv. rate"], Percent)),
                                   Rat(100, 1))
                        /\ pc' = "apply"
                        /\ UNCHANGED ui
                   ELSE /\ UNCHANGED avg_conv_rate
                        /\ Raise("KeyError")
    /\ UNCHANGED <<columns, df_raw, df, before_drop, after_drop>>

(***************************************************************************)
(* Recommendation logic.                                                   *)
(***************************************************************************)
Decrease == "Decrease Budget"

SlightIncrease == "Slight Increase"

Increase == "Increase Budget"

Reason1 == "Underperforming on all key metrics"

Reason2a == "Avg conversions, high cost, low CTR"

Reason2b == "Avg conversions, good CTR may drive gains"

Reason2c == "Near-average performance with inefficiencies"

Reason3 == "High conversions, low cost, high CTR"

Reason4 == "Performance not clearly above average"

Recommendation(action, reason, expected_conversions, new_budget) ==
    [c \in new_columns |->
        CASE c = "Budget Action" -> action
          [] c = "Reason" -> reason
          [] c = "Expected Conversions" -> expected_conversions
          [] c = "Suggested Budget" -> new_budget]

\* row.get('Clicks', 0) or 0: the default for an absent column and for a
\* falsy value; a number is falsy only when it is zero, nan is truthy.
ClicksOf(row) ==
    IF "Clicks" \notin DOMAIN row THEN Zero
    ELSE IF row["Clicks"] = Zero THEN Zero
    ELSE row["Clicks"]

AbsoluteDeviation(conv, avg) == FAbs(FSub(conv, avg))

\* abs(conv - avg_conversions) / avg_conversions
RelativeDeviation(conv, avg) == FDiv(FAbs(FSub(conv, avg)), avg)

\* get_recommendation(row), a closure over the four benchmark values.
get_recommendation(row) ==
    LET conv == row["Conversions"]
        cpa == row["Cost / conv."]
        ctr == row["CTR"]
        clicks == ClicksOf(row)
        budget == row["Budget"]
        expected_conversions == Round2(FMul(clicks, avg_conv_rate))
        times(num, den) == Round2(FMul(budget, Rat(num, den)))
    IN  IF FLt(conv, avg_conversions) /\ FGt(cpa, avg_cpa) /\ FLt(ctr, avg_ctr)
        THEN Recommendation(Decrease, Reason1, expected_conversions, times(8, 10))
        ELSE IF FLe(RelativeDeviation(conv, avg_conversions), Rat(5, 100))
        THEN IF FGt(cpa, avg_cpa) /\ FLt(ctr, avg_ctr)
             THEN Recommendation(Decrease, Reason2a, expected_conversions, times(8, 10))
             ELSE IF FGt(cpa, avg_cpa) /\ FGt(ctr, avg_ctr)
             THEN Recommendation(SlightIncrease, Reason2b, expected_conversions, times(11, 10))
             ELSE Recommendation(Decrease, Reason2c, expected_conversions, times(8, 10))
        ELSE IF FGt(conv, avg_conversions) /\ FLt(cpa, avg_cpa) /\ FGt(ctr, avg_ctr)
        THEN Recommendation(Increase, Reason3, expected_conversions, times(12, 10))
        ELSE Recommendation(Decrease, Reason4, expected_conversions, times(8, 10))

\* df[[...]] = df.apply(get_recommendation, axis=1).  On a table without
\* rows apply returns a copy of the table itself, whose columns are not the
\* four assigned ones, and the assignment raises ValueError.
ApplyRecommendations ==
    /\ pc = "apply"
    /\ IF df = <<>>
       THEN Raise("ValueError") /\ UNCHANGED df
       ELSE /\ df' = [i \in DOMAIN df |-> df[i] @@ get_recommendation(df[i])]
            /\ pc' = "display"
            /\ UNCHANGED ui
    /\ UNCHANGED <<columns, df_raw, before_drop, after_drop,
                   avg_conversions, avg_cpa, avg_ctr, avg_conv_rate>>

Project(table, cols) == [i \in DOMAIN table |-> Restrict(table[i], cols)]

\* sort_values('Budget Action', ascending=False): the labels begin with a
\* coloured square, whose code points order Increase > Slight Increase >
\* Decrease.
SortByActionDescending(table) ==
    LET IsIncrease(r) == r["Budget Action"] = Increase
        IsSlight(r) == r["Budget Action"] = SlightIncrease
        IsDecrease(r) == r["Budget Action"] = Decrease
    IN  SelectSeq(table, IsIncrease) \o SelectSeq(table, IsSlight)
            \o SelectSeq(table, IsDecrease)

\* st.subheader, then st.dataframe(df[display_cols].sort_values(...)).
DisplayTable ==
    /\ pc = "display"
    /\ IF display_cols \subseteq (columns \cup new_columns)
       THEN /\ ui' = ui \o <<Subheader,
                             Element("dataframe", "recommendations", Len(df),
                                     SortByActionDescending(Project(df, display_cols)))>>
            /\ pc' = "download"
       ELSE /\ ui' = ui \o <<Subheader, ErrorMessage("KeyError")>>
            /\ pc' = "error"
    /\ UNCHANGED <<columns, df_raw, df, before_drop, after_drop,
                   avg_conversions, avg_cpa, avg_ctr, avg_conv_rate>>

\* st.download_button(data=df[display_cols].to_csv(index=False), ...)
DownloadButton ==
    /\ pc = "download"
    /\ ui' = Append(ui, Element("download_button", "campaign_budget_recommendations.csv",
                                Len(df), Project(df, display_cols)))
    /\ pc' = "done"
    /\ UNCHANGED <<columns, df_raw, df, before_drop, after_drop,
                   avg_conversions, avg_cpa, avg_ctr, avg_conv_rate>>

\* The file is removed from the uploader: the script reruns without a file.
RemoveFile ==
    /\ pc \in {"done", "error"}
    /\ pc' = "idle"
    /\ columns' = {}
    /\ df_raw' = <<>>
    /\ df' = <<>>
    /\ before_drop' = 0
    /\ after_drop' = 0
    /\ avg_conversions' = NaN
    /\ avg_cpa' = NaN
    /\ avg_ctr' = NaN
    /\ avg_conv_rate' = NaN
    /\ ui' = <<Info>>

Next ==
    \/ ReadCsv
    \/ FilterTotals
    \/ CleanColumns
    \/ DropIncomplete
    \/ ResolveBenchmark
    \/ ApplyRecommendations
    \/ DisplayTable
    \/ DownloadButton
    \/ RemoveFile

Spec == Init /\ [][Next]_vars

(***************************************************************************)
(* Runs over one campaign row and an account-total row, the cells drawn    *)
(* from value sets that reach every branch of the recommendation logic.    *)
(***************************************************************************)
ConversionsCells ==
    {<<"-", "5">>, <<"0">>, <<"4", "0">>, <<"9", "5">>, <<"9", "8">>, <<"1", "0", "0">>,
     <<"1", "0", "5">>, <<"1", "0", "6">>, <<"1", "2", "0">>}

CostCells == {<<"3", ".", "0", "0">>, <<"5", ".", "0", "0">>, <<"6", ".", "0", "0">>,
              <<"7", ".", "0", "0">>}

CtrCells == {<<"2", ".", "0", "%">>, <<"3", ".", "0", "%">>, <<"4", ".", "0", "%">>}

ClicksCells == {Dash, <<"0">>, <<"5", "0", "0">>}

BudgetCells == {<<"1", "0", "0", "0">>, <<"1", "2", ".", "3", "4">>}

TotalConversionsCells == {Dash, <<"0">>, <<"1", "0", "0">>, <<"-", "1", "0", "0">>}

TotalCostCells == {Dash, <<"5", ".", "0", "0">>}

TotalCtrCells == {Dash, <<"3", ".", "0", "%">>}

TotalConvRateCells == {Dash, <<"2", "%">>}

Row(nm, conv, cost, ctr, clicks, rate, budget) ==
    [c \in AllColumns |->
        CASE c = "Campaign" -> nm
          [] c = "Conversions" -> conv
          [] c = "Cost / conv." -> cost
          [] c = "CTR" -> ctr
          [] c = "Clicks" -> clicks
          [] c = "Conv. rate" -> rate
          [] c = "Budget" -> budget]

InitRec ==
    /\ pc = "filter"
    /\ columns = AllColumns
    /\ \E conv \in ConversionsCells, cost \in CostCells, ctr \in CtrCells,
          clicks \in ClicksCells, budget \in BudgetCells,
          tconv \in TotalConversionsCells, tcost \in TotalCostCells,
          tctr \in TotalCtrCells, trate \in TotalConvRateCells :
          df_raw = <<Row(TotalAccount, tconv, tcost, tctr, Dash, trate, Dash),
                     Row(Brand, conv, cost, ctr, clicks, <<"2", "%">>, budget)>>
    /\ df = <<>>
    /\ before_drop = 0
    /\ after_drop = 0
    /\ avg_conversions = NaN
    /\ avg_cpa = NaN
    /\ avg_ctr = NaN
    /\ avg_conv_rate = NaN
    /\ ui = <<>>

NextRec ==
    \/ FilterTotals
    \/ CleanColumns
    \/ DropIncomplete
    \/ ResolveBenchmark
    \/ ApplyRecommendations
    \/ DisplayTable
    \/ DownloadButton

SpecRec == InitRec /\ [][NextRec]_vars

(***************************************************************************)
(* Vocabulary of the properties.  The comparisons below are stated on      *)
(* finite numbers by cross-multiplication, independently of the float      *)
(* operations of the model.                                                *)
(***************************************************************************)
\* The rows of df carry a recommendation.
Classified == df # <<>> /\ "Reason" \in DOMAIN df[1]

Defined(x) == x.d > 0

Below(a, b) == Defined(a) /\ Defined(b) /\ a.n * b.d < b.n * a.d

Above(a, b) == Below(b, a)

\* |x - a| / a <= 0.05 for a defined, non-zero a.
NearAverage(x, a) ==
    /\ Defined(x) /\ Defined(a) /\ a.n # 0
    /\ \/ a.n < 0
       \/ 20 * Abs(x.n * a.d - a.n * x.d) <= a.n * x.d

\* s is new = budget x tenths/10 rounded to two decimals: a multiple of
\* 1/100 within half a hundredth of the product.
IsBudgetTimes(s, budget, tenths) ==
    /\ Defined(s) /\ Defined(budget)
    /\ 100 % s.d = 0
    /\ 200 * Abs(s.n * budget.d * 10 - budget.n * tenths * s.d) <= s.d * budget.d * 10

Branch1(r) ==
    /\ Below(r["Conversions"], avg_conversions)
    /\ Above(r["Cost / conv."], avg_cpa)
    /\ Below(r["CTR"], avg_ctr)

Branch3(r) ==
    /\ Above(r["Conversions"], avg_conversions)
    /\ Below(r["Cost / conv."], avg_cpa)
    /\ Above(r["CTR"], avg_ctr)

Branch2Reasons == {Reason2a, Reason2b, Reason2c}

\* <<action, reason, tenths of the budget multiplier>> of the first matching
\* branch in the order 1, 2a, 2b, 2c, 3, 4.
FirstMatch(r) ==
    CASE Branch1(r) -> <<Decrease, Reason1, 8>>
      [] ~Branch1(r) /\ NearAverage(r["Conversions"], avg_conversions)
            /\ Above(r["Cost / conv."], avg_cpa) /\ Below(r["CTR"], avg_ctr)
         -> <<Decrease, Reason2a, 8>>
      [] ~Branch1(r) /\ NearAverage(r["Conversions"], avg_conversions)
            /\ Above(r["Cost / conv."], avg_cpa) /\ Above(r["CTR"], avg_ctr)
         -> <<SlightIncrease, Reason2b, 11>>
      [] ~Branch1(r) /\ NearAverage(r["Conversions"], avg_conversions)
            /\ ~(Above(r["Cost / conv."], avg_cpa) /\ r["CTR"] # avg_ctr)
         -> <<Decrease, Reason2c, 8>>
      [] ~Branch1(r) /\ ~NearAverage(r["Conversions"], avg_conversions) /\ Branch3(r)
         -> <<Increase, Reason3, 12>>
      [] OTHER -> <<Decrease, Reason4, 8>>

ScenarioBenchmark ==
    /\ avg_conversions = Rat(100, 1)
    /\ avg_cpa = Rat(5, 1)
    /\ avg_ctr = Rat(3, 1)
    /\ avg_conv_rate = Rat(2, 100)

IsRecord(r, conv, cpa, ctr, budget) ==
    /\ r["Conversions"] = Rat(conv, 1)
    /\ r["Cost / conv."] = Rat(cpa, 1)
    /\ r["CTR"] = Rat(ctr, 1)
    /\ r["Budget"] = Rat(budget, 1)

\* C1: against a benchmark whose four values are defined and whose
\* avg_conversions is not zero, every record gets the action, the reason and
\* the budget multiplier of the first matching branch in the order 1, 2a,
\* 2b, 2c, 3, 4; against {100, 5.00, 3.0, 0.02} the record {40, 7.00, 2.0,
\* 1000} gets Decrease and 800.00, the record {98, 6.00, 4.0, 1000} gets
\* Slight Increase and 1100.00.
C1_FirstMatchingBranch ==
    (/\ Classified
     /\ Defined(avg_conversions) /\ Defined(avg_cpa) /\ Defined(avg_ctr)
     /\ Defined(avg_conv_rate)
     /\ avg_conversions.n # 0)
    => \A i \in DOMAIN df :
          LET r == df[i]
              o == FirstMatch(r)
          IN  /\ r["Budget Action"] = o[1]
              /\ r["Reason"] = o[2]
              /\ IsBudgetTimes(r["Suggested Budget"], r["Budget"], o[3])
              /\ (ScenarioBenchmark /\ IsRecord(r, 40, 7, 2, 1000))
                    => (r["Budget Action"] = Decrease
                        /\ r["Suggested Budget"] = Rat(800, 1))
              /\ (ScenarioBenchmark /\ IsRecord(r, 98, 6, 4, 1000))
                    => (r["Budget Action"] = SlightIncrease
                        /\ r["Suggested Budget"] = Rat(1100, 1))

\* The second scenario of C1 has been classified and shown.
C1_Witness ==
    /\ pc = "done"
    /\ ScenarioBenchmark
    /\ IsRecord(df[1], 98, 6, 4, 1000)
    /\ df[1]["Reason"] = Reason2b
    /\ df[1]["Suggested Budget"] = Rat(1100, 1)

\* C2 as stated: every record whose conversions are within 5% of
\* avg_conversions gets one of the three branch-2 reasons.
C2_NearAverageAlwaysBranch2 ==
    Classified =>
        \A i \in DOMAIN df :
            NearAverage(df[i]["Conversions"], avg_conversions)
                => df[i]["Reason"] \in Branch2Reasons

\* C2 amended: a near-average record gets one of the three branch-2 reasons
\* unless all three conditions of branch 1 hold for it, in which case branch
\* 1 takes it; branch 3's conditions holding, or only some of branch 1's,
\* does not take it out of branch 2.
C2_NearAverageBranch2UnlessBranch1 ==
    Classified =>
        \A i \in DOMAIN df :
            NearAverage(df[i]["Conversions"], avg_conversions)
                => IF Branch1(df[i])
                   THEN df[i]["Reason"] = Reason1
                   ELSE df[i]["Reason"] \in Branch2Reasons

\* A near-average record for which all of branch 3's conditions hold has
\* been given a branch-2 reason.
C2_Witness ==
    /\ Classified
    /\ NearAverage(df[1]["Conversions"], avg_conversions)
    /\ Branch3(df[1])
    /\ df[1]["Reason"] = Reason2c

C7_MissingClicksAsZero ==
    Classified =>
        \A i \in DOMAIN df :
            IsNaN(df[i]["Clicks"])
                => \A c \in new_columns :
                      df[i][c] = get_recommendation([df[i] EXCEPT !["Clicks"] = Zero])[c]

\* C10: a record is classified Increase (budget x 1.2) only if its
\* conversions are above avg_conversions and outside the 5% band, its cost
\* below avg_cpa and its CTR above avg_ctr; every other record gets budget
\* x 0.8, except the near-average record with cost above avg_cpa and CTR
\* above avg_ctr, which gets budget x 1.1; a near-average record with cost
\* below avg_cpa and CTR above avg_ctr is decreased.
C10_IncreaseOnlyWhenClearlyAbove ==
    Classified =>
        \A i \in DOMAIN df :
            LET r == df[i]
                near == NearAverage(r["Conversions"], avg_conversions)
                case2b == /\ near
                          /\ Above(r["Cost / conv."], avg_cpa)
                          /\ Above(r["CTR"], avg_ctr)
            IN  /\ r["Budget Action"] = Increase
                      => /\ IsBudgetTimes(r["Suggested Budget"], r["Budget"], 12)
                         /\ Branch3(r)
                         /\ ~near
                /\ r["Budget Action"] # Increase
                      => IF case2b
                         THEN IsBudgetTimes(r["Suggested Budget"], r["Budget"], 11)
                         ELSE IsBudgetTimes(r["Suggested Budget"], r["Budget"], 8)
                /\ (near /\ Below(r["Cost / conv."], avg_cpa) /\ Above(r["CTR"], avg_ctr))
                      => /\ r["Budget Action"] = Decrease
                         /\ IsBudgetTimes(r["Suggested Budget"], r["Budget"], 8)

\* A near-average record that beats the benchmark on cost and CTR has been
\* decreased, its budget 12.34 becoming 9.87.
C10_Witness ==
    /\ Classified
    /\ NearAverage(df[1]["Conversions"], avg_conversions)
    /\ Below(df[1]["Cost / conv."], avg_cpa)
    /\ Above(df[1]["CTR"], avg_ctr)
    /\ df[1]["Budget"] = Rat(1234, 100)
    /\ df[1]["Suggested Budget"] = Rat(987, 100)

(***************************************************************************)
(* Properties of the whole run.                                            *)
(***************************************************************************)
NameHasTotal(r) ==
    \E i \in 1..Len(r["Campaign"]), j \in 1..Len(r["Campaign"]) :
        SubSeq(r["Campaign"], i, j) = TotalMarker

IsCampaignRow(r) == ~NameHasTotal(r)

\* The raw rows that are not total lines, in file order.
Candidates == SelectSeq(df_raw, IsCampaignRow)

LacksKeyMetric(r) == \E c \in dropna_subset : IsNaN(CleanCell(r[c]))

HasKeyMetrics(r) == ~LacksKeyMetric(r)

Survivors == SelectSeq(Candidates, HasKeyMetrics)

Normalized == pc \in {"benchmark", "apply", "display", "download", "done"}

Resolved == pc \in {"apply", "display", "download", "done"}

Emitted(kind, text) == {k \in DOMAIN ui : ui[k].kind = kind /\ ui[k].text = text}

\* C4: after normalization every record has conversions, cost per
\* conversion, CTR and budget; the records are exactly the non-total rows
\* that lack none of the four after cleaning, in file order; the reported
\* drop count is the number of the other non-total rows (rows before minus
\* rows after), and nothing is reported when it is zero.
C4_NormalizedRecordsComplete ==
    Normalized =>
        LET dropped == Len(Candidates) - Len(Survivors)
        IN  /\ \A i \in DOMAIN df : \A c \in dropna_subset : Defined(df[i][c])
            /\ Len(df) = Len(Survivors)
            /\ \A i \in DOMAIN df :
                  /\ df[i]["Campaign"] = Survivors[i]["Campaign"]
                  /\ \A c \in columns \cap clean_columns :
                        df[i][c] = CleanCell(Survivors[i][c])
            /\ before_drop - after_drop = dropped
            /\ after_drop = Len(Survivors)
            /\ IF dropped = 0
               THEN Emitted("warning", "dropped") = {}
               ELSE /\ Cardinality(Emitted("warning", "dropped")) = 1
                    /\ \A k \in Emitted("warning", "dropped") : ui[k].n = dropped

\* Of two campaign rows one lacked a key metric and was dropped, the other
\* was kept, classified and shown.
C4_Witness ==
    /\ pc = "done"
    /\ Len(Candidates) = 2
    /\ Len(df) = 1
    /\ DroppedWarning(1) \in {ui[k] : k \in DOMAIN ui}

\* The rows of df_raw named exactly 'Total: Account'.
AccountRows == {i \in DOMAIN df_raw : df_raw[i]["Campaign"] = TotalAccount}

FirstAccountRow == df_raw[CHOOSE i \in AccountRows : \A j \in AccountRows : i <= j]

ParsedConversions == ToNumeric(FirstAccountRow["Conversions"])

ParsedCpa == ToNumeric(FirstAccountRow["Cost / conv."])

ParsedCtr == ToNumeric(Remove(FirstAccountRow["CTR"], Percent))

ParsedConvRate == ToNumeric(Remove(FirstAccountRow["Conv. rate"], Percent))

ParsesCleanly ==
    /\ Defined(ParsedConversions)
    /\ Defined(ParsedCpa)
    /\ Defined(ParsedCtr)
    /\ Defined(ParsedConvRate)

\* avg is the arithmetic mean of the non-missing values of column c over
\* the normalized records, and missing when there are none.
IsMeanOfColumn(avg, c) ==
    LET sum == SumSeq([i \in DOMAIN Survivors |->
                          IF IsNaN(CleanCell(Survivors[i][c])) THEN Zero
                          ELSE CleanCell(Survivors[i][c])])
        count == Cardinality({i \in DOMAIN Survivors : ~IsNaN(CleanCell(Survivors[i][c]))})
    IN  IF count = 0 THEN IsNaN(avg)
        ELSE Defined(avg) /\ avg.n * count * sum.d = sum.n * avg.d

BenchmarkIsParsedRow ==
    /\ avg_conversions = ParsedConversions
    /\ avg_cpa = ParsedCpa
    /\ avg_ctr = ParsedCtr
    /\ avg_conv_rate = FDiv(ParsedConvRate, Rat(100, 1))

BenchmarkIsMean ==
    /\ IsMeanOfColumn(avg_conversions, "Conversions")
    /\ IsMeanOfColumn(avg_cpa, "Cost / conv.")
    /\ IsMeanOfColumn(avg_ctr, "CTR")
    /\ IsMeanOfColumn(FMul(avg_conv_rate, Rat(100, 1)), "Conv. rate")

\* C5 as stated: the benchmark is the parsed 'Total: Account' row when that
\* row exists and parses cleanly, otherwise the mean over the normalized
\* records; the fallback diagnostic is reported exactly in the second case.
C5_ParsedRowOrElseMean ==
    Resolved =>
        IF AccountRows # {} /\ ParsesCleanly
        THEN BenchmarkIsParsedRow /\ Emitted("warning", "fallback") = {}
        ELSE BenchmarkIsMean /\ Emitted("warning", "fallback") # {}

\* C5 amended: when a row named exactly 'Total: Account' exists the
\* benchmark is the parsed values of the first such row (conversions, cost
\* per conversion, CTR without its percent sign, conversion rate without
\* its percent sign divided by 100), a field that does not parse being
\* missing, and no fallback diagnostic is reported; when no such row exists
\* the benchmark is the mean over the normalized records of conversions,
\* cost per conversion and CTR and the mean of the non-missing conversion
\* rates divided by 100 (missing when there is nothing to average), and the
\* fallback diagnostic is reported.
C5_ParsedRowWhenPresentElseMean ==
    Resolved =>
        IF AccountRows # {}
        THEN BenchmarkIsParsedRow /\ Emitted("warning", "fallback") = {}
        ELSE BenchmarkIsMean /\ Cardinality(Emitted("warning", "fallback")) = 1

\* The benchmark came from a 'Total: Account' row that does not parse
\* cleanly, next to a campaign row that was classified.
C5_Witness ==
    /\ pc = "done"
    /\ AccountRows # {}
    /\ ~ParsesCleanly
    /\ IsNaN(avg_cpa)
    /\ avg_conversions = Rat(8, 1)

\* C6: no row whose campaign name contains 'Total' is in the working table,
\* in the displayed table or in the export; such rows are not counted as
\* dropped; the rows whose name does not contain it all pass the filter.
C6_TotalRowsExcluded ==
    ("Campaign" \in columns /\ pc # "filter") =>
        /\ \A i \in DOMAIN df : ~NameHasTotal(df[i])
        /\ \A k \in DOMAIN ui : \A i \in DOMAIN ui[k].data : ~NameHasTotal(ui[k].data[i])
        /\ pc = "clean" => df = Candidates
        /\ Normalized =>
              /\ before_drop = Len(Candidates)
              /\ \A k \in Emitted("warning", "dropped") :
                    ui[k].n = Len(Candidates) - Len(df)

\* A file with a 'Grand Total' row lacking its budget and a 'Subtotal' row:
\* the first is gone and not reported as dropped, the second is classified.
C6_Witness ==
    /\ pc = "done"
    /\ Len(df_raw) = 2
    /\ df_raw[1]["Campaign"] = GrandTotal
    /\ IsNaN(CleanCell(df_raw[1]["Budget"]))
    /\ Len(df) = 1
    /\ df[1]["Campaign"] = Subtotal
    /\ Emitted("warning", "dropped") = {}

AccountRowUnparsable == AccountRows # {} /\ ~ParsesCleanly

\* C8: if the 'Total: Account' row exists but one of its benchmark fields
\* does not parse, the run does not abort and does not fall back to
\* averaging; the field is missing, with avg_conversions missing every
\* record takes branch 4, and with avg_cpa or avg_ctr missing no record is
\* classified Increase or Slight Increase.
C8_UnparsableTotalFieldTolerated ==
    (columns = AllColumns /\ Candidates # <<>> /\ AccountRowUnparsable) =>
        /\ pc # "error"
        /\ Resolved =>
              /\ Emitted("warning", "fallback") = {}
              /\ BenchmarkIsParsedRow
        /\ Classified =>
              \A i \in DOMAIN df :
                  /\ IsNaN(avg_conversions) => df[i]["Reason"] = Reason4
                  /\ (IsNaN(avg_cpa) \/ IsNaN(avg_ctr))
                        => df[i]["Budget Action"] = Decrease

\* A column is absent from the file, or the file has no campaign row at all.
ShapeIssue ==
    \/ columns # AllColumns
    \/ \A i \in DOMAIN df_raw : NameHasTotal(df_raw[i])

\* C9: a run aborts only for a dataset-shape issue, and then with a single
\* error message and neither a recommendation table nor an export; missing
\* or unparsable cells never abort the run.
C9_OnlyShapeIssuesFatal ==
    pc = "error" =>
        /\ ShapeIssue
        /\ Cardinality({k \in DOMAIN ui : ui[k].kind = "error"}) = 1
        /\ \A k \in DOMAIN ui : ui[k].kind \notin {"dataframe", "download_button"}

====
